---- MODULE Spec2Model ----
(***************************************************************************)
(* The Streamlit script teaching.py as a state machine.  One script run    *)
(* is one pass over the file: session defaults, sidebar, validation of the *)
(* credentials and of the model inventory, and, when the button was        *)
(* clicked with a topic, the four agents followed by the download section. *)
(* Strings are sequences of one-character strings, with the fixed pieces   *)
(* of a template kept as single tokens.                                    *)
(***************************************************************************)
EXTENDS Integers, Sequences, FiniteSets, TLC

\* ---------------------------------------------------------------- bounds
MaxClock == 1
MaxTopicLen == 1

\* ---------------------------------------------------------------- strings
\* Python's None, for a model or a key that is not given
None == "None"

\* a module variable of the script: unbound, or bound to a value
Unbound == <<>>

Bound(v) == <<v>>

ValueOf(x) == x[1]

Chars == {"P", "y", " "}

RECURSIVE SeqsUpTo(_, _)
SeqsUpTo(S, n) ==
    IF n = 0 THEN {<<>>}
    ELSE LET shorter == SeqsUpTo(S, n - 1)
         IN  shorter \cup {Append(s, c) : s \in {t \in shorter : Len(t) = n - 1}, c \in S}

\* str.lower(), one character
LowerChar(c) == IF c = "P" THEN "p" ELSE c

\* str.upper(), one character
UpperChar(c) == IF c = "y" THEN "Y" ELSE IF c = "p" THEN "P" ELSE c

Lower(s) == [i \in 1..Len(s) |-> LowerChar(s[i])]

Upper(s) == [i \in 1..Len(s) |-> UpperChar(s[i])]

\* str.replace(old, new) for one-character old and new
Replace(s, old, new) == [i \in 1..Len(s) |-> IF s[i] = old THEN new ELSE s[i]]

IsSpace(c) == c = " "

\* str.strip(): leading and trailing whitespace removed
RECURSIVE LStrip(_)
LStrip(s) == IF s # <<>> /\ IsSpace(Head(s)) THEN LStrip(Tail(s)) ELSE s

RECURSIVE RStrip(_)
RStrip(s) == IF s # <<>> /\ IsSpace(s[Len(s)]) THEN RStrip(SubSeq(s, 1, Len(s) - 1)) ELSE s

Strip(s) == RStrip(LStrip(s))

\* ---------------------------------------------------------------- inputs
\* the options of the sidebar's selectbox, in order
ModelOptions ==
    <<"llama3.2:latest", "mistral:latest", "sqlcoder:latest",
      "gemma2:2b", "phi3:mini", "tinyllama:latest">>

\* what the user can type into a password field
KeyInputs == {<<>>, <<" ">>, <<" ", "k">>}

\* what the user can type into the topic field: the short strings, and one
\* of two words
Topics == SeqsUpTo(Chars, MaxTopicLen) \cup {<<"P", "y", " ", "P">>}

\* what ollama.list() can answer: an exception, or the names of the pulled models
Inventories ==
    {{}, {"llama3.2:latest", "mistral:latest"}, {"codellama:latest"}}

Agents == <<"professor", "advisor", "librarian", "assistant">>

AgentSet == {Agents[i] : i \in 1..Len(Agents)}

VARIABLES
    widgets,            \* the browser's widget state, read by the script
    session_state,      \* st.session_state
    pc,                 \* position of the script run
    clock,              \* the wall clock, in seconds
    available_models,   \* line 48
    errors,             \* the st.error messages of this run
    calls,              \* the chat and search calls issued in this run
    topic,              \* line 202
    search_results,     \* line 145
    professor_result, advisor_result, librarian_result, assistant_result,
    timestamp,          \* line 231
    complete_package,   \* line 274
    downloads           \* the st.download_button calls of this run

vars ==
    <<widgets, session_state, pc, clock, available_models, errors, calls,
      topic, search_results, professor_result, advisor_result, librarian_result,
      assistant_result, timestamp, complete_package, downloads>>

locals ==
    <<available_models, topic, search_results, professor_result, advisor_result,
      librarian_result, assistant_result, timestamp, complete_package>>

\* ---------------------------------------------------------------- script start
\* lines 14-21 on a fresh session, then lines 24-35 with the widgets' defaults
DefaultWidgets ==
    [model |-> ModelOptions[1], composio |-> <<>>, serpapi |-> <<>>,
     topic |-> <<>>, button |-> FALSE]

\* lines 28, 34, 35: the sidebar stores the widgets' values in the session
Sidebar(w, ss) ==
    [ss EXCEPT !.ollama_model = w.model,
               !.composio_api_key = Strip(w.composio),
               !.serpapi_api_key = Strip(w.serpapi)]

\* lines 14-19; session_state['topic'] (lines 20-21, 208) is written and never
\* read, and is left out of the state
SessionDefaults ==
    [ollama_model |-> "llama3.2:latest", composio_api_key |-> <<>>,
     serpapi_api_key |-> <<>>]

Init ==
    /\ widgets = DefaultWidgets
    /\ session_state = Sidebar(DefaultWidgets, SessionDefaults)
    /\ pc = "validate_keys"
    /\ clock = 0
    /\ available_models = Unbound
    /\ errors = <<>>
    /\ calls = <<>>
    /\ topic = Unbound
    /\ search_results = Unbound
    /\ professor_result = Unbound
    /\ advisor_result = Unbound
    /\ librarian_result = Unbound
    /\ assistant_result = Unbound
    /\ timestamp = Unbound
    /\ complete_package = Unbound
    /\ downloads = <<>>

Halted == pc \in {"stopped", "done"}

\* The user changes one widget, or clicks the button: Streamlit reruns the
\* script from the top with fresh module variables, and lines 14-35 run again.
\* st.button is True only in the run its click started.
WidgetChanges(old) ==
    {[old EXCEPT !.model = ModelOptions[i], !.button = FALSE] : i \in 1..Len(ModelOptions)}
    \cup {[old EXCEPT !.composio = k, !.button = FALSE] : k \in KeyInputs}
    \cup {[old EXCEPT !.serpapi = k, !.button = FALSE] : k \in KeyInputs}
    \cup {[old EXCEPT !.topic = t, !.button = FALSE] : t \in Topics}
    \cup {[old EXCEPT !.button = TRUE]}

UserInput(w) ==
    /\ Halted
    /\ w \in WidgetChanges(widgets)
    /\ widgets' = w
    /\ session_state' = Sidebar(w, session_state)
    /\ pc' = "validate_keys"
    /\ available_models' = Unbound
    /\ errors' = <<>>
    /\ calls' = <<>>
    /\ topic' = Unbound
    /\ search_results' = Unbound
    /\ professor_result' = Unbound
    /\ advisor_result' = Unbound
    /\ librarian_result' = Unbound
    /\ assistant_result' = Unbound
    /\ timestamp' = Unbound
    /\ complete_package' = Unbound
    /\ downloads' = <<>>
    /\ UNCHANGED clock

KeysMissingBoth(ss) == ss.composio_api_key = <<>> /\ ss.serpapi_api_key = <<>>

\* lines 41-43
KeysMissing(ss) == ss.composio_api_key = <<>> \/ ss.serpapi_api_key = <<>>

ValidateKeys ==
    /\ pc = "validate_keys"
    /\ IF KeysMissing(session_state)
       THEN /\ errors' = Append(errors, "Please enter Composio and SerpAPI keys in the sidebar.")
            /\ pc' = "stopped"
       ELSE /\ pc' = "list_models"
            /\ UNCHANGED errors
    /\ UNCHANGED <<widgets, session_state, clock, calls, downloads, locals>>

\* lines 46-54, ollama.list() answering with the inventory inv
ModelFound(model, inv) == model \in inv

ListModelsOk(inv) ==
    /\ pc = "list_models"
    /\ available_models' = Bound(inv)
    /\ IF ModelFound(session_state.ollama_model, inv)
       THEN /\ pc' = "main"
            /\ UNCHANGED errors
       ELSE /\ errors' = Append(errors, "Model not found")
            /\ pc' = "stopped"
    /\ UNCHANGED <<widgets, session_state, clock, calls, downloads, topic,
                   search_results, professor_result, advisor_result, librarian_result,
                   assistant_result, timestamp, complete_package>>

\* lines 52-54, ollama.list() or the reading of its answer raising
ListModelsRaises ==
    /\ pc = "list_models"
    /\ errors' = Append(errors, "Error connecting to Ollama")
    /\ pc' = "stopped"
    /\ UNCHANGED <<widgets, session_state, clock, calls, downloads, locals>>

\* lines 202-208
AfterButton(clicked, t) ==
    IF ~clicked THEN "done" ELSE IF t = <<>> THEN "done" ELSE "professor"

Main ==
    /\ pc = "main"
    /\ topic' = Bound(widgets.topic)
    /\ pc' = AfterButton(widgets.button, widgets.topic)
    /\ errors' = IF widgets.button /\ widgets.topic = <<>>
                 THEN Append(errors, "Please enter a topic!") ELSE errors
    /\ UNCHANGED <<widgets, session_state, clock, calls, downloads, available_models,
                   search_results, professor_result, advisor_result, librarian_result,
                   assistant_result, timestamp, complete_package>>

\* ---------------------------------------------------------------- adapters
\* what ollama.chat can do: answer with a text (possibly empty), or raise
ChatReplies ==
    << [ok |-> TRUE, text |-> <<>>],
       [ok |-> TRUE, text |-> <<"lorem">>],
       [ok |-> FALSE, text |-> <<"connection refused">>] >>

ChatModelDefault(model, ss) == "llama3.2:latest"

\* line 61: model or st.session_state['ollama_model']
ChatModel(model, ss) == IF model # None /\ model # <<>> THEN model ELSE ss.ollama_model

call_ollama_bare(reply) == reply.text

\* lines 59-66: the text call_ollama returns for a reply of ollama.chat
call_ollama(reply) ==
    IF reply.ok THEN reply.text ELSE <<"Error calling Ollama: ">> \o reply.text

\* JSON values as json() parses them
JNull == [t |-> "null"]

JString(s) == [t |-> "string", s |-> s]

JArray(items) == [t |-> "array", items |-> items]

JObject(items) == [t |-> "object", items |-> items]

FullRecord ==
    JObject(<< <<"title", JString(<<"T">>)>>, <<"link", JString(<<"L">>)>>,
               <<"snippet", JString(<<"S">>)>> >>)

TitleOnly == JObject(<< <<"title", JString(<<"T">>)>> >>)

\* what requests.get and response.json() can do: raise, or yield a JSON value
SearchReplies ==
    << [t |-> "raises", msg |-> <<"ConnectionError">>],
       [t |-> "raises", msg |-> <<"JSONDecodeError">>],
       JNull,
       JString(<<"organic_results">>),
       JObject(<< <<"error", JString(<<"Invalid API key">>)>> >>),
       JObject(<< <<"organic_results", JNull>> >>),
       JObject(<< <<"organic_results", JArray(<<>>)>> >>),
       JObject(<< <<"organic_results", JArray(<<FullRecord>>)>> >>),
       JObject(<< <<"organic_results", JArray(<<TitleOnly>>)>> >>),
       JObject(<< <<"organic_results", JArray(<<FullRecord, JNull>>)>> >>) >>

HasKey(items, k) == \E i \in 1..Len(items) : items[i][1] = k

Lookup(items, k) == items[CHOOSE i \in 1..Len(items) : items[i][1] = k][2]

\* dict.get(k, '') on an entry of organic_results
Get(items, k) == IF HasKey(items, k) THEN Lookup(items, k).s ELSE <<>>

\* line 82: the operand of `in` is no container, and Python raises TypeError
InRaises(data) == data.t \notin {"object", "array", "string"}

\* line 82: 'organic_results' in data
InData(data) ==
    CASE data.t = "object" -> HasKey(data.items, "organic_results")
      [] data.t = "array" ->
            \E i \in 1..Len(data.items) :
                data.items[i].t = "string" /\ data.items[i].s = <<"organic_results">>
      [] data.t = "string" -> \E i \in 1..Len(data.s) : data.s[i] = "organic_results"

ErrorSentinel(msg) == << << <<"error", <<"Search error: ">> \o msg>> >> >>

\* lines 84-88
SearchRecord(result) ==
    << <<"title", Get(result.items, "title")>>,
       <<"link", Get(result.items, "link")>>,
       <<"snippet", Get(result.items, "snippet")>> >>

\* line 83: what `for result in` iterates over: the items of an array, the
\* characters of a string, the keys of an object
Iterated(v) ==
    CASE v.t = "array" -> v.items
      [] v.t = "string" -> [i \in 1..Len(v.s) |-> JString(<<v.s[i]>>)]
      [] v.t = "object" -> [i \in 1..Len(v.items) |-> JString(<<v.items[i][1]>>)]

\* lines 83-88: data['organic_results'] and the loop over it; an exception
\* leaves the try block for line 91
Extract(data) ==
    IF data.t # "object" THEN ErrorSentinel(<<"TypeError">>)
    ELSE LET organic == Lookup(data.items, "organic_results")
         IN  IF organic.t \notin {"array", "string", "object"}
             THEN ErrorSentinel(<<"TypeError">>)
             ELSE IF \E i \in 1..Len(Iterated(organic)) : Iterated(organic)[i].t # "object"
                  THEN ErrorSentinel(<<"AttributeError">>)
                  ELSE [i \in 1..Len(Iterated(organic)) |-> SearchRecord(Iterated(organic)[i])]

search_web_unchecked(reply) ==
    IF reply.t = "raises" THEN ErrorSentinel(reply.msg)
    ELSE IF reply.t = "object" /\ HasKey(reply.items, "organic_results") THEN Extract(reply)
    ELSE ErrorSentinel(<<"KeyError">>)

\* lines 69-91: what search_web returns for a reply of the provider
search_web(reply) ==
    IF reply.t = "raises" THEN ErrorSentinel(reply.msg)
    ELSE IF InRaises(reply) THEN ErrorSentinel(<<"TypeError">>)
    ELSE IF InData(reply) THEN Extract(reply)
    ELSE <<>>

\* json.dumps(search_results, indent=2)
RECURSIVE DumpItems(_)
DumpItems(d) ==
    IF d = <<>> THEN <<>>
    ELSE <<"\"", Head(d)[1], "\": \"">> \o Head(d)[2] \o <<"\"">>
         \o (IF Len(d) > 1 THEN <<",">> ELSE <<>>) \o DumpItems(Tail(d))

RECURSIVE DumpList(_)
DumpList(l) ==
    IF l = <<>> THEN <<>>
    ELSE <<"{">> \o DumpItems(Head(l)) \o <<"}">>
         \o (IF Len(l) > 1 THEN <<",">> ELSE <<>>) \o DumpList(Tail(l))

JsonDumps(l) == IF l = <<>> THEN <<"[]">> ELSE <<"[">> \o DumpList(l) \o <<"]">>

\* ---------------------------------------------------------------- agents
PromptWithoutResults(a, t, sr) ==
    <<"You are ... for: ">> \o t \o <<"Search Results:">> \o JsonDumps(<<>>)
    \o <<"Requirements: ...">>

\* lines 96-107, 120-131, 147-161, 175-187
Prompt(a, t, sr) ==
    CASE a = "professor" ->
            <<"You are a Professor and Research Specialist. ... for the topic: ">> \o t
            \o <<"Requirements: ... Create a detailed report ...">>
      [] a = "advisor" ->
            <<"You are an Academic Advisor and Learning Path Designer. ... for: ">> \o t
            \o <<"Requirements: ... Present the roadmap ...">>
      [] a = "librarian" ->
            <<"You are a Research Librarian. ... for: ">> \o t
            \o <<"Search Results:">> \o JsonDumps(ValueOf(sr))
            \o <<"Requirements: ... Create a comprehensive resource guide.">>
      [] a = "assistant" ->
            <<"You are a Teaching Assistant. ... for: ">> \o t
            \o <<"Requirements: ... Create comprehensive practice materials ...">>

\* lines 113, 137, 167, 193
Title(a, t) ==
    CASE a = "professor" -> <<"Professor Report - ">> \o t
      [] a = "advisor" -> <<"Learning Roadmap - ">> \o t
      [] a = "librarian" -> <<"Learning Resources - ">> \o t
      [] a = "assistant" -> <<"Practice Materials - ">> \o t

Tag(a) ==
    CASE a = "professor" -> "professor_report_"
      [] a = "advisor" -> "learning_roadmap_"
      [] a = "librarian" -> "learning_resources_"
      [] a = "assistant" -> "practice_materials_"

SnakeCaseNoLower(t) == Replace(t, " ", "_")

\* topic.lower().replace(' ', '_')
SnakeCase(t) == Replace(Lower(t), " ", "_")

\* lines 114, 138, 168, 194
Filename(a, t) == <<Tag(a)>> \o SnakeCase(t)

\* lines 111-115, 135-139, 165-170, 191-195
AgentResult(a, t, response, sr) ==
    IF a = "librarian"
    THEN [content |-> response, title |-> Title(a, t), filename |-> Filename(a, t),
          search_results |-> ValueOf(sr)]
    ELSE [content |-> response, title |-> Title(a, t), filename |-> Filename(a, t)]

\* line 145
SearchQuery(t) == <<"learn ">> \o t \o <<" tutorial course">>

AfterAgentNoDownloads(a) ==
    CASE a = "professor" -> "advisor"
      [] a = "advisor" -> "librarian"
      [] a = "librarian" -> "assistant"
      [] a = "assistant" -> "done"

AfterAgentEarly(a) ==
    CASE a = "professor" -> "advisor"
      [] a = "advisor" -> "librarian"
      [] a = "librarian" -> "downloads"
      [] a = "assistant" -> "downloads"

\* the order of the agents in the handler, lines 213-225
AfterAgent(a) ==
    CASE a = "professor" -> "advisor"
      [] a = "advisor" -> "librarian"
      [] a = "librarian" -> "assistant"
      [] a = "assistant" -> "downloads"

\* where an agent issues its chat call
ChatAt(a) == IF a = "librarian" THEN "librarian_prompt" ELSE a

Pending == \E i \in 1..Len(calls) : calls[i].status = "pending"

\* line 145 up to the request of line 78
SearchCall ==
    /\ pc = "librarian"
    /\ calls' = Append(calls, [kind |-> "search", agent |-> "librarian", model |-> None,
                               text |-> SearchQuery(ValueOf(topic)),
                               key |-> session_state.serpapi_api_key,
                               status |-> "pending", reply |-> 0])
    /\ pc' = "librarian_search"
    /\ UNCHANGED <<widgets, session_state, clock, errors, downloads, locals>>

\* lines 78-91 and the assignment of line 145
SearchReturn(i) ==
    /\ pc = "librarian_search"
    /\ calls' = [calls EXCEPT ![Len(calls)].status =
                                  IF SearchReplies[i].t = "raises" THEN "raised" ELSE "returned",
                              ![Len(calls)].reply = i]
    /\ search_results' = Bound(search_web(SearchReplies[i]))
    /\ pc' = "librarian_prompt"
    /\ UNCHANGED <<widgets, session_state, clock, errors, downloads, available_models,
                   topic, professor_result, advisor_result, librarian_result,
                   assistant_result, timestamp, complete_package>>

\* an agent up to its call of ollama.chat, line 60
ChatCall(a) ==
    /\ pc = ChatAt(a)
    /\ calls' = Append(calls, [kind |-> "chat", agent |-> a,
                               model |-> ChatModel(None, session_state),
                               text |-> Prompt(a, ValueOf(topic), search_results),
                               key |-> <<>>, status |-> "pending", reply |-> 0])
    /\ pc' = a \o "_chat"
    /\ UNCHANGED <<widgets, session_state, clock, errors, downloads, locals>>

\* lines 64-66, the agent's return and the handler's assignment of its result
ChatReturn(a, i) ==
    /\ pc = a \o "_chat"
    /\ calls' = [calls EXCEPT ![Len(calls)].status =
                                  IF ChatReplies[i].ok THEN "returned" ELSE "raised",
                              ![Len(calls)].reply = i]
    /\ LET r == AgentResult(a, ValueOf(topic), call_ollama(ChatReplies[i]), search_results)
       IN  /\ professor_result' = IF a = "professor" THEN Bound(r) ELSE professor_result
           /\ advisor_result' = IF a = "advisor" THEN Bound(r) ELSE advisor_result
           /\ librarian_result' = IF a = "librarian" THEN Bound(r) ELSE librarian_result
           /\ assistant_result' = IF a = "assistant" THEN Bound(r) ELSE assistant_result
    /\ pc' = AfterAgent(a)
    /\ UNCHANGED <<widgets, session_state, clock, errors, downloads, available_models,
                   topic, search_results, timestamp, complete_package>>

\* ---------------------------------------------------------------- downloads
TwoDigits(n) == <<ToString(n \div 10), ToString(n % 10)>>

\* strftime('%Y%m%d_%H%M%S') of the clock value t; the date is kept as the day's number
StrfFile(t) ==
    <<"%Y%m%d", ToString(t \div 86400), "_">>
    \o TwoDigits((t \div 3600) % 24) \o TwoDigits((t \div 60) % 60) \o TwoDigits(t % 60)

\* strftime('%Y-%m-%d %H:%M:%S') of the clock value t
StrfPackage(t) ==
    <<"%Y-%m-%d", ToString(t \div 86400), " ">>
    \o TwoDigits((t \div 3600) % 24) \o <<":">> \o TwoDigits((t \div 60) % 60)
    \o <<":">> \o TwoDigits(t % 60)

\* datetime.now(): the clock is seen only when it is read, and since the last
\* reading it has advanced by any amount, none included
Readings(c) == c..MaxClock

\* lines 240, 249, 258, 267
FileName(filename, ts) == filename \o <<"_">> \o ts \o <<".txt">>

\* lines 237-243, 246-252, 255-261, 264-270
DownloadButton(label, result, ts) ==
    [label |-> label, data |-> result.content, file_name |-> FileName(result.filename, ts)]

\* lines 228-270: the timestamp and the four per-agent buttons
RenderDownloads(now) ==
    /\ pc = "downloads"
    /\ now \in Readings(clock)
    /\ clock' = now
    /\ timestamp' = Bound(StrfFile(now))
    /\ downloads' =
          downloads \o
          << DownloadButton("Professor Report", ValueOf(professor_result), StrfFile(now)),
             DownloadButton("Learning Roadmap", ValueOf(advisor_result), StrfFile(now)),
             DownloadButton("Resources Guide", ValueOf(librarian_result), StrfFile(now)),
             DownloadButton("Practice Materials", ValueOf(assistant_result), StrfFile(now)) >>
    /\ pc' = "package"
    /\ UNCHANGED <<widgets, session_state, errors, calls, available_models, topic,
                   search_results, professor_result, advisor_result, librarian_result,
                   assistant_result, complete_package>>

Bar == <<"==========================================">>

CompletePackageSwapped(t, now, professor, advisor, librarian, assistant) ==
    << <<>>,
       <<"COMPLETE LEARNING PACKAGE FOR: ">> \o Upper(t),
       <<"Generated on: ">> \o StrfPackage(now),
       <<>>,
       Bar, <<"PROFESSOR'S KNOWLEDGE BASE">>, Bar, professor.content,
       <<>>,
       Bar, <<"ACADEMIC ADVISOR'S LEARNING ROADMAP">>, Bar, librarian.content,
       <<>>,
       Bar, <<"RESEARCH LIBRARIAN'S RESOURCE GUIDE">>, Bar, advisor.content,
       <<>>,
       Bar, <<"TEACHING ASSISTANT'S PRACTICE MATERIALS">>, Bar, assistant.content,
       <<>>,
       Bar, <<"END OF LEARNING PACKAGE">>, Bar,
       <<"        ">> >>

\* lines 274-301: the f-string, line by line
CompletePackage(t, now, professor, advisor, librarian, assistant) ==
    << <<>>,
       <<"COMPLETE LEARNING PACKAGE FOR: ">> \o Upper(t),
       <<"Generated on: ">> \o StrfPackage(now),
       <<>>,
       Bar, <<"PROFESSOR'S KNOWLEDGE BASE">>, Bar, professor.content,
       <<>>,
       Bar, <<"ACADEMIC ADVISOR'S LEARNING ROADMAP">>, Bar, advisor.content,
       <<>>,
       Bar, <<"RESEARCH LIBRARIAN'S RESOURCE GUIDE">>, Bar, librarian.content,
       <<>>,
       Bar, <<"TEACHING ASSISTANT'S PRACTICE MATERIALS">>, Bar, assistant.content,
       <<>>,
       Bar, <<"END OF LEARNING PACKAGE">>, Bar,
       <<"        ">> >>

\* line 306
PackageFileName(t, ts) == FileName(<<"complete_learning_package_">> \o SnakeCase(t), ts)

\* lines 273-309: the composite and its button; lines 311-326 only display
RenderPackage(now) ==
    /\ pc = "package"
    /\ now \in Readings(clock)
    /\ clock' = now
    /\ complete_package' =
          Bound(CompletePackage(ValueOf(topic), now, ValueOf(professor_result),
                                ValueOf(advisor_result), ValueOf(librarian_result),
                                ValueOf(assistant_result)))
    /\ downloads' =
          Append(downloads,
                 [label |-> "Download Complete Learning Package",
                  data |-> ValueOf(complete_package'),
                  file_name |-> PackageFileName(ValueOf(topic), ValueOf(timestamp))])
    /\ pc' = "done"
    /\ UNCHANGED <<widgets, session_state, errors, calls, available_models, topic,
                   search_results, professor_result, advisor_result, librarian_result,
                   assistant_result, timestamp>>

Next ==
    \/ \E w \in WidgetChanges(widgets) : UserInput(w)
    \/ ValidateKeys
    \/ \E inv \in Inventories : ListModelsOk(inv)
    \/ ListModelsRaises
    \/ Main
    \/ SearchCall
    \/ \E i \in 1..Len(SearchReplies) : SearchReturn(i)
    \/ \E a \in AgentSet : ChatCall(a)
    \/ \E a \in AgentSet, i \in 1..Len(ChatReplies) : ChatReturn(a, i)
    \/ \E now \in Readings(clock) : RenderDownloads(now)
    \/ \E now \in Readings(clock) : RenderPackage(now)

Spec == Init /\ [][Next]_vars

\* A script run is one synchronous pass: every step but the user's is taken, and
\* a call that was issued returns or fails.
ScriptStep ==
    \/ ValidateKeys
    \/ \E inv \in Inventories : ListModelsOk(inv)
    \/ ListModelsRaises
    \/ Main
    \/ SearchCall
    \/ \E i \in 1..Len(SearchReplies) : SearchReturn(i)
    \/ \E a \in AgentSet : ChatCall(a)
    \/ \E a \in AgentSet, i \in 1..Len(ChatReplies) : ChatReturn(a, i)
    \/ \E now \in Readings(clock) : RenderDownloads(now)
    \/ \E now \in Readings(clock) : RenderPackage(now)

FairSpec == Spec /\ WF_vars(ScriptStep)


\* ---------------------------------------------------------------- properties
Result(a) ==
    CASE a = "professor" -> professor_result
      [] a = "advisor" -> advisor_result
      [] a = "librarian" -> librarian_result
      [] a = "assistant" -> assistant_result

NoArtifacts ==
    /\ downloads = <<>>
    /\ complete_package = Unbound
    /\ timestamp = Unbound
    /\ \A a \in AgentSet : Result(a) = Unbound

InSection == pc \in {"downloads", "package"} \/ (pc = "done" /\ calls # <<>>)

\* C1: a chat or search call is issued only with both credentials non-empty, the
\* selected model in the listed inventory and a non-empty topic; a missing
\* credential, an absent model or a failed listing halts the run with an error
\* shown, no agent invoked and no download produced.
C1_CallsOnlyWhenValid ==
    /\ calls # <<>> =>
          /\ Len(session_state.composio_api_key) > 0
          /\ Len(session_state.serpapi_api_key) > 0
          /\ available_models # Unbound
          /\ session_state.ollama_model \in ValueOf(available_models)
          /\ widgets.button
          /\ Len(widgets.topic) > 0
    /\ (Len(session_state.composio_api_key) = 0 \/ Len(session_state.serpapi_api_key) = 0)
          => pc \in {"validate_keys", "stopped"}
    /\ (available_models # Unbound /\ session_state.ollama_model \notin ValueOf(available_models))
          => pc = "stopped"
    /\ pc = "stopped" => (Len(errors) = 1 /\ calls = <<>> /\ NoArtifacts)
    /\ pc \notin {"validate_keys", "list_models", "stopped"} => available_models # Unbound

C1_Witness ==
    /\ pc = "stopped"
    /\ widgets.button
    /\ widgets.topic # <<>>
    /\ session_state.composio_api_key # <<>>
    /\ session_state.serpapi_api_key # <<>>
    /\ available_models = Bound({"codellama:latest"})
    /\ errors = <<"Model not found">>

ExpectedTitle(a) ==
    CASE a = "professor" -> <<"Professor Report - ">> \o widgets.topic
      [] a = "advisor" -> <<"Learning Roadmap - ">> \o widgets.topic
      [] a = "librarian" -> <<"Learning Resources - ">> \o widgets.topic
      [] a = "assistant" -> <<"Practice Materials - ">> \o widgets.topic

SnakeChar(c) == CASE c = " " -> "_" [] c = "P" -> "p" [] OTHER -> c

ExpectedSnake == [i \in 1..Len(widgets.topic) |-> SnakeChar(widgets.topic[i])]

ExpectedFilename(a) ==
    CASE a = "professor" -> <<"professor_report_">> \o ExpectedSnake
      [] a = "advisor" -> <<"learning_roadmap_">> \o ExpectedSnake
      [] a = "librarian" -> <<"learning_resources_">> \o ExpectedSnake
      [] a = "assistant" -> <<"practice_materials_">> \o ExpectedSnake

ChatCallOf(a) == CHOOSE i \in 1..Len(calls) : calls[i].kind = "chat" /\ calls[i].agent = a

HasChatCall(a) == \E i \in 1..Len(calls) : calls[i].kind = "chat" /\ calls[i].agent = a

\* C2: when the chat call of an agent raises, the agent still returns a result
\* whose content is 'Error calling Ollama: <message>', with the title and the
\* filename of the success case.
C2_FailSoft ==
    \A a \in AgentSet :
        (HasChatCall(a) /\ calls[ChatCallOf(a)].status = "raised") =>
            /\ pc # a \o "_chat"
            /\ Result(a) # Unbound
            /\ ValueOf(Result(a)).content =
                  <<"Error calling Ollama: ">> \o ChatReplies[calls[ChatCallOf(a)].reply].text
            /\ ValueOf(Result(a)).title = ExpectedTitle(a)
            /\ ValueOf(Result(a)).filename = ExpectedFilename(a)

C2_Witness ==
    /\ \A a \in AgentSet : HasChatCall(a) /\ calls[ChatCallOf(a)].status = "raised"
    /\ assistant_result # Unbound
    /\ ValueOf(assistant_result).content = <<"Error calling Ollama: ", "connection refused">>

CycleStarted == pc = "professor"

CycleComplete ==
    /\ pc = "done"
    /\ \A a \in AgentSet : HasChatCall(a) /\ Result(a) # Unbound
    /\ Len(downloads) = 5
    /\ complete_package # Unbound

\* C3: a generation cycle that starts (valid configuration, non-empty topic)
\* ends with all four agents invoked, the four downloads and the composite
\* produced, whatever the outcomes of the five calls.
C3_CycleCompletes == CycleStarted ~> CycleComplete

C3_Witness ==
    /\ CycleComplete
    /\ \A i \in 1..Len(calls) : calls[i].status = "raised"

\* C4: downloads and the composite exist only after all four agents have returned
\* in this run, and the composite holds the contents this run's calls produced.
C4_Barrier ==
    /\ (InSection \/ downloads # <<>> \/ complete_package # Unbound \/ timestamp # Unbound) =>
          /\ ~Pending
          /\ \A a \in AgentSet :
                /\ HasChatCall(a)
                /\ Result(a) # Unbound
                /\ ValueOf(Result(a)).content =
                      LET r == ChatReplies[calls[ChatCallOf(a)].reply]
                      IN  IF r.ok THEN r.text ELSE <<"Error calling Ollama: ">> \o r.text
    /\ complete_package # Unbound =>
          /\ ValueOf(complete_package)[8] = ValueOf(professor_result).content
          /\ ValueOf(complete_package)[13] = ValueOf(advisor_result).content
          /\ ValueOf(complete_package)[18] = ValueOf(librarian_result).content
          /\ ValueOf(complete_package)[23] = ValueOf(assistant_result).content

C4_Witness ==
    /\ complete_package # Unbound
    /\ widgets.topic = <<"P", "y", " ", "P">>
    /\ ValueOf(professor_result).content = <<"lorem">>
    /\ ValueOf(assistant_result).content = <<>>

UpperOf(c) == CASE c = "y" -> "Y" [] OTHER -> c

BarLine == <<"==========================================">>

\* C5: the composite is the title line with the topic in upper case, the
\* 'Generated on' line, the four banners in the order Professor, Advisor,
\* Librarian, Assistant, each followed by that agent's content, and the end
\* banner (after a leading empty line, and before a last line of blanks).
C5_PackageLayout ==
    complete_package # Unbound =>
        LET P == ValueOf(complete_package)
            Banner(k, name) == P[k] = BarLine /\ P[k + 1] = <<name>> /\ P[k + 2] = BarLine
        IN  /\ Len(P) = 28
            /\ P[1] = <<>>
            /\ P[2] = <<"COMPLETE LEARNING PACKAGE FOR: ">>
                      \o [i \in 1..Len(widgets.topic) |-> UpperOf(widgets.topic[i])]
            /\ Head(P[3]) = "Generated on: "
            /\ Banner(5, "PROFESSOR'S KNOWLEDGE BASE")
            /\ P[8] = ValueOf(professor_result).content
            /\ Banner(10, "ACADEMIC ADVISOR'S LEARNING ROADMAP")
            /\ P[13] = ValueOf(advisor_result).content
            /\ Banner(15, "RESEARCH LIBRARIAN'S RESOURCE GUIDE")
            /\ P[18] = ValueOf(librarian_result).content
            /\ Banner(20, "TEACHING ASSISTANT'S PRACTICE MATERIALS")
            /\ P[23] = ValueOf(assistant_result).content
            /\ Banner(25, "END OF LEARNING PACKAGE")
            /\ \A k \in {4, 9, 14, 19, 24} : P[k] = <<>>
            /\ P[28] = <<"        ">>

C5_Witness ==
    /\ complete_package # Unbound
    /\ ValueOf(professor_result).content = <<>>
    /\ ValueOf(advisor_result).content = <<"Error calling Ollama: ", "connection refused">>
    /\ ValueOf(librarian_result).content = <<"lorem">>
    /\ ValueOf(assistant_result).content = <<>>

SearchReturned ==
    \E i \in 1..Len(calls) : calls[i].kind = "search" /\ calls[i].status # "pending"

SearchRaw ==
    SearchReplies[calls[CHOOSE i \in 1..Len(calls) : calls[i].kind = "search"].reply]

HasField(raw) ==
    raw.t = "object" /\ \E k \in 1..Len(raw.items) : raw.items[k][1] = "organic_results"

IsSentinel(sr) == Len(sr) = 1 /\ Len(sr[1]) = 1 /\ sr[1][1][1] = "error"

\* C6 as stated: whenever the parsed JSON lacks 'organic_results', search_web
\* returns the empty sequence and not the sentinel.
C6_EmptyWheneverFieldAbsent ==
    (SearchReturned /\ SearchRaw.t # "raises" /\ ~HasField(SearchRaw)) =>
        search_results = Bound(<<>>)

FieldValue(raw) ==
    raw.items[CHOOSE k \in 1..Len(raw.items) : raw.items[k][1] = "organic_results"][2]

\* the statements of lines 82-88 that raise on the parsed value raw
ExtractionRaises(raw) ==
    \/ raw.t = "null"
    \/ raw.t = "string" /\ \E i \in 1..Len(raw.s) : raw.s[i] = "organic_results"
    \/ /\ HasField(raw)
       /\ \/ FieldValue(raw).t = "null"
          \/ /\ FieldValue(raw).t = "array"
             /\ \E i \in 1..Len(FieldValue(raw).items) : FieldValue(raw).items[i].t # "object"

\* C6, amended: for a parsed JSON object without 'organic_results', search_web
\* returns the empty sequence; the sentinel is returned only when the request,
\* the parsing or the extraction raises (which a parsed value that is no
\* container does); search_web always returns.
C6_EmptyWhenObjectLacksField ==
    SearchReturned =>
        /\ search_results # Unbound
        /\ pc # "librarian_search"
        /\ (SearchRaw.t = "object" /\ ~HasField(SearchRaw)) => search_results = Bound(<<>>)
        /\ IsSentinel(ValueOf(search_results)) =>
              (SearchRaw.t = "raises" \/ ExtractionRaises(SearchRaw))

C6_Witness ==
    /\ SearchReturned
    /\ SearchRaw.t = "object"
    /\ ~HasField(SearchRaw)
    /\ search_results = Bound(<<>>)

Embeds(p, d) == \E k \in 1..(Len(p) - Len(d) + 1) : SubSeq(p, k, k + Len(d) - 1) = d

LibrarianChats == {i \in 1..Len(calls) : calls[i].kind = "chat" /\ calls[i].agent = "librarian"}

\* C7: the librarian searches for 'learn <topic> tutorial course', then issues
\* one chat call whose prompt embeds the serialisation of exactly what the search
\* returned, and its result carries that same sequence; a failed search does not
\* prevent the call or the result.
C7_LibrarianEmbedsResults ==
    /\ \A i \in 1..Len(calls) : calls[i].kind = "search" =>
          /\ calls[i].text = <<"learn ">> \o widgets.topic \o <<" tutorial course">>
          /\ calls[i].key = session_state.serpapi_api_key
    /\ Cardinality(LibrarianChats) <= 1
    /\ \A k \in LibrarianChats :
          /\ k > 1
          /\ calls[k - 1].kind = "search"
          /\ calls[k - 1].status # "pending"
          /\ search_results # Unbound
          /\ Embeds(calls[k].text, JsonDumps(ValueOf(search_results)))
          /\ pc = "librarian_chat" =>
                \A j \in 1..Len(SearchReplies) :
                    Embeds(calls[k].text, JsonDumps(search_web(SearchReplies[j])))
                        => search_web(SearchReplies[j]) = ValueOf(search_results)
    /\ librarian_result # Unbound =>
          ValueOf(librarian_result).search_results = ValueOf(search_results)
    /\ (pc = "assistant" \/ pc = "assistant_chat" \/ InSection) =>
          (LibrarianChats # {} /\ librarian_result # Unbound)

C7_Witness ==
    /\ librarian_result # Unbound
    /\ SearchRaw.t = "raises"
    /\ IsSentinel(ValueOf(librarian_result).search_results)
    /\ Embeds(calls[4].text, <<"Search error: ", "ConnectionError">>)

Suffix(name) == SubSeq(name, Len(name) - 9, Len(name) - 1)

InstantOfFile(ts) == CHOOSE t \in 0..MaxClock : StrfFile(t) = ts

InstantOfLine(line) == CHOOSE t \in 0..MaxClock : <<"Generated on: ">> \o StrfPackage(t) = line

\* C8 as stated: the five file names carry one timestamp suffix, and it denotes
\* the instant of the composite's 'Generated on' line.
C8_OneInstant ==
    complete_package # Unbound =>
        /\ \A i \in 1..Len(downloads) : Suffix(downloads[i].file_name) = ValueOf(timestamp)
        /\ InstantOfFile(ValueOf(timestamp)) = InstantOfLine(ValueOf(complete_package)[3])

\* C9: an agent's filename is its tag followed by the topic in lower case with
\* spaces replaced by underscores, whatever the calls' outcomes, and the file is
\* named '<filename>_<timestamp>.txt'.
C9_Filenames ==
    /\ \A a \in AgentSet : Result(a) # Unbound => ValueOf(Result(a)).filename = ExpectedFilename(a)
    /\ \A i \in 1..Len(downloads) : i <= 4 =>
          downloads[i].file_name =
              ExpectedFilename(Agents[i]) \o <<"_">> \o ValueOf(timestamp) \o <<".txt">>

C9_Witness ==
    /\ Len(downloads) >= 4
    /\ widgets.topic = <<"P", "y", " ", "P">>
    /\ professor_result = Bound([content |-> <<"Error calling Ollama: ", "connection refused">>,
                                 title |-> <<"Professor Report - ", "P", "y", " ", "P">>,
                                 filename |-> <<"professor_report_", "p", "y", "_", "p">>])

ExpectedCalls ==
    << <<"chat", "professor">>, <<"chat", "advisor">>, <<"search", "librarian">>,
       <<"chat", "librarian">>, <<"chat", "assistant">> >>

\* C10: the calls of a cycle are the chat calls of Professor and Advisor, the
\* search, and the chat calls of Librarian and Assistant, in this order, each
\* once and after the one before has returned or failed; every chat call names
\* the model that was validated against the inventory.
C10_CallSequence ==
    /\ Len(calls) <= Len(ExpectedCalls)
    /\ \A i \in 1..Len(calls) :
          /\ <<calls[i].kind, calls[i].agent>> = ExpectedCalls[i]
          /\ i < Len(calls) => calls[i].status # "pending"
          /\ calls[i].kind = "chat" =>
                /\ calls[i].model = widgets.model
                /\ calls[i].model \in ValueOf(available_models)
    /\ InSection => (Len(calls) = Len(ExpectedCalls) /\ ~Pending)
    /\ Pending => pc \in {"professor_chat", "advisor_chat", "librarian_search",
                          "librarian_chat", "assistant_chat"}

C10_Witness ==
    /\ pc = "done"
    /\ Len(calls) = 5
    /\ widgets.model = "mistral:latest"
    /\ calls[2].status = "raised"
    /\ calls[5].model = "mistral:latest"

====
